---- MODULE Spec2Model ----
(***************************************************************************)
(* Model of netOnZeroDXC_diagram.cpp: option parsing, validation of the    *)
(* window geometry, allocation of the diagrams, the real correlation       *)
(* diagram, and the surrogate trial loop in its sequential and its OpenMP  *)
(* parallel form.                                                          *)
(*                                                                         *)
(* Machine integers are modelled at a reduced width: size_t is SizeBits    *)
(* wide and unsigned int is UIntBits wide, so that the wrap-around of the  *)
(* unsigned subtractions and of the seed counter is reachable with small   *)
(* inputs.  Correlation values are integers in -2..2 (units of 0.5) and a  *)
(* p-value cell holds the integer numerator n of the fraction              *)
(* n / nr_surrogates.                                                      *)
(***************************************************************************)
EXTENDS Integers, Sequences, FiniteSets, TLC

\* ---------------------------------------------------------------- bounds
SizeBits == 8
UIntBits == 6
MaxM == 2
ParBudget == 4
MaxLen == 6
MaxL == 4
MaxW == 2
NumCols == 2

SizeMod == 2 ^ SizeBits
UIntMod == 2 ^ UIntBits
SizeofDouble == 8

\* ------------------------------------------------------- machine helpers
\* conversion of an int to size_t (comparison and subtraction operands)
ToSize(x) == x % SizeMod

\* unsigned int arithmetic on the seed
ToUInt(x) == x % UIntMod

\* C integer division of non-negative operands
CDiv(a, b) == a \div b

TauTerm(tau) == IF tau > 0 THEN tau ELSE 0

Abs(x) == IF x < 0 THEN -x ELSE x

\* ------------------------------------------------------- parse_options
\* lines 289-292: normalisation of -C / -p
NormPrintCorr_keep(C, p) == C
NormPrintCorr(C, p) == IF (~p /\ ~C) THEN C ELSE IF (p /\ C) THEN FALSE ELSE C

NormComputeP(C, p) == IF (~p /\ ~C) THEN TRUE ELSE p

\* lines 294-305: the three rejections of parse_options
ParseError(a) == (a.n_a <= 0 \/ a.n_b <= 0) \/ (a.W <= 0) \/ (a.L <= 0)

\* ------------------------------------------------------- check_sequences
\* line 319
ColumnTooLarge(na, nb, ncols) == (ToSize(na) > ncols) \/ (ToSize(nb) > ncols)

\* line 324: floor((sequences[na].size() - L * W) / L) - ((tau > 0)? tau : 0),
\* the subtraction and the division done in size_t
DiagramSizeExpected(sz, L, W, tau) ==
    (ToSize(sz - L * W) \div L) - TauTerm(tau)

\* lines 329-332
CorrectBaseWidth(L) == IF L % 2 # 0 THEN L - 1 ELSE L

\* ------------------------------------------------------- allocation loop
\* a vector<double> of n elements cannot exist when n * sizeof(double)
\* reaches the size of the address space: push_back throws std::bad_alloc
AllocFails(n) == n * SizeofDouble >= SizeMod

\* lines 111-117: number of push_back calls of
\* for (k = W*L/2 - 1; k < size - W*L/2 [- tau]; k = k + L)
\* with the int k converted to size_t for the comparison; n counts the
\* elements pushed so far and the loop ends early when push_back throws
RECURSIVE LoopCount(_, _, _, _)
LoopCount(k, bound, L, n) ==
    IF AllocFails(n) THEN n
    ELSE IF ToSize(k) < bound THEN LoopCount(k + L, bound, L, n + 1)
    ELSE n

LoopStart(W, L) == CDiv(W * L, 2) - 1

LoopBound(N, W, L, tau) == ToSize(N - CDiv(W * L, 2) - TauTerm(tau))

DummySize(N, W, L, tau) == LoopCount(LoopStart(W, L), LoopBound(N, W, L, tau), L, 0)

\* n times dummy_vector.push_back(0)
Zeros(n) == [k \in 1..n |-> 0]

\* std::vector<std::vector<double>> x(rows, dummy): rows copies of dummy
NewDiagram(rows, dummy) == [l \in 1..rows |-> dummy]

\* ------------------------------------------- external numerical routines
\* netOnZeroDXC_compute_cdiagram fills the diagram it is handed; the values it
\* computes from the data are drawn from a few shapes (units of 0.5)
RealPatterns == {1, 2}
SurrPatterns == {1, 2}

RealValue(pat, l, k) == IF pat = 1 THEN 2 ELSE IF k % 2 = 1 THEN -2 ELSE 1

SurrValue(pat, l, k) == IF pat = 1 THEN (IF k % 2 = 1 THEN -2 ELSE 0) ELSE 1

RealDiagram(pat, d) == [l \in 1..Len(d) |-> [k \in 1..Len(d[l]) |-> RealValue(pat, l, k)]]

SurrDiagram(pat, d) == [l \in 1..Len(d) |-> [k \in 1..Len(d[l]) |-> SurrValue(pat, l, k)]]

\* netOnZeroDXC_update_pdiagram(p, real, surr, W, M): a cell gains 1/M when
\* |surr| >= |real|
UpdatePDiagram(p, real, surr, W, M) ==
    [l \in 1..Len(p) |->
        [k \in 1..Len(p[l]) |->
            IF l <= W /\ Abs(surr[l][k]) >= Abs(real[l][k])
            THEN p[l][k] + 1 ELSE p[l][k]]]

\* outcomes of the loaders (0 ok, 2 unreadable file, 3/5 inconsistent sizes)
LoadErrors == {0, 2, 3, 5}

\* outcome of netOnZeroDXC_save_single_file
SaveErrors == {0, 1}

\* ------------------------------------------------------------ trial loop
\* lines 152 and 174: i < nr_surrogates
TrialLoopContinues(i, M) == i < M

\* lines 183 and 185: seed++
SeqSeedNext_stuck(s) == s
SeqSeedNext(s) == ToUInt(s + 1)

\* line 160: seed = seed + 2*i
ParSeedStart(s, i) == ToUInt(s + 2 * i)

\* line 162: seed++
ParSeedNext(s) == ToUInt(s + 1)

\* ------------------------------------------------------------------ state
VARIABLES
    args,       \* the command line: n_a n_b W L tau M C p parallel o
    loaded,     \* loaded_sequences: number of columns, common length, content
    clock,      \* what clock() returns at line 149
    nthreads,   \* size of the OpenMP thread team
    pc,         \* position of main
    exit_status,
    opt,        \* main's option variables after parsing
    dummy_vector,
    correlation_diagram_data,
    p_value_diagram,
    seed,       \* line 149, shared by the workers of the parallel loop
    i,          \* loop counter (sequential) / next index handed out (parallel)
    wk,         \* per worker: position, trial index, register, surrogate diagram
    crit,       \* owner of the omp critical section, 0 when free
    hist        \* observation of the run

vars == <<args, loaded, clock, nthreads, pc, exit_status, opt, dummy_vector, correlation_diagram_data,
          p_value_diagram, seed, i, wk, crit, hist>>

Workers == 1..nthreads

\* the clock() values tried for line 149
Clocks == {1, UIntMod - 2}

Datasets == [ncols : {NumCols}, len : {MaxLen - 2, MaxLen}, data : RealPatterns]

\* command lines exercising parsing, validation and allocation
BroadArgs ==
    [n_a : 0..(NumCols + 1), n_b : 0..(NumCols + 1), W : 0..MaxW, L : 0..MaxL,
     tau : {-1, 1}, M : {1}, C : BOOLEAN, p : BOOLEAN, parallel : {FALSE},
     o : BOOLEAN]

\* command lines exercising the trial loops on one valid geometry; a parallel
\* run has M trials and a team of nthreads workers with M + nthreads <= ParBudget
TrialArgs(Ms, par) ==
    [n_a : {1}, n_b : {2}, W : {1}, L : {2}, tau : {-1}, M : Ms,
     C : {FALSE}, p : {TRUE}, parallel : {par}, o : {FALSE}]

IdleWorker ==
    [pc |-> "idle", i |-> 0, tmp |-> 0, seed_a |-> 0, seed_b |-> 0, surr |-> 0, pd |-> <<>>]

Init ==
    /\ \/ /\ args \in BroadArgs
          /\ loaded \in Datasets
          /\ clock = 1
          /\ nthreads = 1
       \/ /\ args \in TrialArgs(1..MaxM, FALSE)
          /\ loaded \in {d \in Datasets : d.len = MaxLen}
          /\ clock \in Clocks
          /\ nthreads = 1
       \/ /\ args \in TrialArgs(1..(ParBudget - 1), TRUE)
          /\ loaded \in {d \in Datasets : d.len = MaxLen}
          /\ clock = 1
          /\ nthreads \in 1..(ParBudget - args.M)
    /\ pc = "parse"
    /\ exit_status = "running"
    \* lines 58-68: defaults
    /\ opt = [print_corr_diagram |-> FALSE, compute_pvalue_diagram |-> FALSE,
              enable_parallel_computing |-> FALSE, write_to_file |-> FALSE,
              index_a |-> -1, index_b |-> -1, apply_tau |-> -1,
              nr_window_widths |-> -1, window_basewidth |-> -1,
              nr_surrogates |-> 100]
    /\ dummy_vector = <<>>
    /\ correlation_diagram_data = <<>>
    /\ p_value_diagram = <<>>
    /\ seed = 0
    /\ i = 0
    /\ wk = [w \in Workers |-> IdleWorker]
    /\ crit = 0
    /\ hist = [seeds |-> {}, surr |-> {}, n_real |-> 0, n_init |-> 0,
               n_update |-> 0, idx_reads |-> {}, writes |-> {}, printed |-> "none",
               validated |-> FALSE, allocated |-> FALSE]

Exit(status) == pc' = "done" /\ exit_status' = status

\* ------------------------------------------------------------------- main
\* lines 71-74 with netOnZeroDXC_xc_parse_options (237-315)
ParseOptions ==
    /\ pc = "parse"
    /\ opt' = [print_corr_diagram |-> NormPrintCorr(args.C, args.p),
               compute_pvalue_diagram |-> NormComputeP(args.C, args.p),
               enable_parallel_computing |-> args.parallel,
               write_to_file |-> args.o,
               index_a |-> args.n_a, index_b |-> args.n_b, apply_tau |-> args.tau,
               nr_window_widths |-> args.W, window_basewidth |-> args.L,
               nr_surrogates |-> args.M]
    /\ IF ParseError(args) THEN Exit("exit1")
       ELSE pc' = "load" /\ exit_status' = exit_status
    /\ UNCHANGED <<args, loaded, clock, nthreads, dummy_vector, correlation_diagram_data, p_value_diagram,
                   seed, i, wk, crit, hist>>

\* lines 76-102
Load ==
    /\ pc = "load"
    /\ \E error \in LoadErrors :
          IF error # 0 THEN Exit("exit1")
          ELSE pc' = "check" /\ exit_status' = exit_status
    /\ UNCHANGED <<args, loaded, clock, nthreads, opt, dummy_vector, correlation_diagram_data, p_value_diagram,
                   seed, i, wk, crit, hist>>

\* what sequences[idx].size() yields: the common length, or, past the end of
\* the vector, whatever the memory there holds
SizeRead(idx) ==
    IF idx >= 0 /\ idx < loaded.ncols THEN {loaded.len}
    ELSE {0, loaded.len, SizeMod - 1}

\* lines 103-107 with netOnZeroDXC_xc_check_sequences (317-335)
CheckSequences ==
    /\ pc = "check"
    /\ LET na == opt.index_a
           nb == opt.index_b
           L  == opt.window_basewidth
           W  == opt.nr_window_widths
           tau == opt.apply_tau
       IN IF ColumnTooLarge(na, nb, loaded.ncols)
          THEN Exit("exit1") /\ UNCHANGED <<opt, hist>>
          ELSE \E sz \in SizeRead(na) :
                  IF DiagramSizeExpected(sz, L, W, tau) < 1
                  THEN /\ Exit("exit1")
                       /\ opt' = opt
                       /\ hist' = [hist EXCEPT !.idx_reads = @ \cup {na}]
                  ELSE /\ pc' = "alloc"
                       /\ exit_status' = exit_status
                       /\ opt' = [opt EXCEPT !.window_basewidth = CorrectBaseWidth(L),
                                             !.index_a = na - 1,
                                             !.index_b = nb - 1]
                       /\ hist' = [hist EXCEPT !.idx_reads = @ \cup {na},
                                               !.validated = TRUE]
    /\ UNCHANGED <<args, loaded, clock, nthreads, dummy_vector, correlation_diagram_data, p_value_diagram,
                   seed, i, wk, crit>>

\* lines 109-119
Allocate ==
    /\ pc = "alloc"
    /\ LET n == DummySize(loaded.len, opt.nr_window_widths, opt.window_basewidth,
                          opt.apply_tau)
       IN IF AllocFails(n)
          THEN /\ Exit("abort")
               /\ UNCHANGED <<dummy_vector, correlation_diagram_data, p_value_diagram>>
               /\ hist' = [hist EXCEPT !.idx_reads = @ \cup {opt.index_a}]
          ELSE /\ pc' = "compute"
               /\ exit_status' = exit_status
               /\ dummy_vector' = Zeros(n)
               /\ correlation_diagram_data' = NewDiagram(opt.nr_window_widths, Zeros(n))
               /\ p_value_diagram' = NewDiagram(opt.nr_window_widths, Zeros(n))
               /\ hist' = [hist EXCEPT !.idx_reads = @ \cup {opt.index_a},
                                       !.allocated = TRUE]
    /\ UNCHANGED <<args, loaded, clock, nthreads, opt, seed, i, wk, crit>>

\* line 121
ComputeReal ==
    /\ pc = "compute"
    /\ correlation_diagram_data' = RealDiagram(loaded.data, correlation_diagram_data)
    /\ hist' = [hist EXCEPT !.n_real = @ + 1,
                            !.idx_reads = @ \cup {opt.index_a, opt.index_b}]
    /\ pc' = "branch"
    /\ UNCHANGED <<args, loaded, clock, nthreads, exit_status, opt, dummy_vector, p_value_diagram, seed, i, wk, crit>>

\* the outcomes of writing diagram d: through the file layer, which may fail,
\* or to standard output, which reads d[l][0] even when the row is empty
WriteOutcomes(d) ==
    IF opt.write_to_file THEN {IF e = 0 THEN "written" ELSE "ioerror" : e \in SaveErrors}
    ELSE IF \E l \in 1..Len(d) : Len(d[l]) = 0 THEN {"written", "crash"}
    ELSE {"written"}

WriteStep(d, what) ==
    \E out \in WriteOutcomes(d) :
       /\ hist' = [hist EXCEPT !.printed = IF out = "written" THEN what ELSE @]
       /\ Exit(IF out = "written" THEN "exit0"
               ELSE IF out = "ioerror" THEN "exit1" ELSE "crash")

\* lines 123-141
PrintCorrelation ==
    /\ pc = "branch"
    /\ opt.print_corr_diagram
    /\ WriteStep(correlation_diagram_data, "corr")
    /\ UNCHANGED <<args, loaded, clock, nthreads, opt, dummy_vector, correlation_diagram_data, p_value_diagram,
                   seed, i, wk, crit>>

\* lines 143-149
InitSurrogates ==
    /\ pc = "branch"
    /\ ~opt.print_corr_diagram
    /\ seed' = clock
    /\ hist' = [hist EXCEPT !.n_init = @ + 2,
                            !.idx_reads = @ \cup {opt.index_a, opt.index_b}]
    /\ i' = 0
    /\ pc' = IF opt.enable_parallel_computing THEN "parallel" ELSE "sequential"
    /\ UNCHANGED <<args, loaded, clock, nthreads, exit_status, opt, dummy_vector, correlation_diagram_data,
                   p_value_diagram, wk, crit>>

\* ------------------------------------------------- sequential loop, 173-191
SeqTrial ==
    /\ pc = "sequential"
    /\ TrialLoopContinues(i, opt.nr_surrogates)
    /\ \E pat \in SurrPatterns :
          LET seed_a == seed
              seed_b == SeqSeedNext(seed_a)
              surr   == SurrDiagram(pat, NewDiagram(opt.nr_window_widths, dummy_vector))
          IN /\ seed' = SeqSeedNext(seed_b)
             /\ p_value_diagram' =
                   UpdatePDiagram(p_value_diagram, correlation_diagram_data, surr,
                                  opt.nr_window_widths, opt.nr_surrogates)
             /\ hist' = [hist EXCEPT
                   !.seeds = @ \cup {[trial |-> i, which |-> "a", seed |-> seed_a],
                                     [trial |-> i, which |-> "b", seed |-> seed_b]},
                   !.surr = @ \cup {[trial |-> i, pat |-> pat]},
                   !.n_update = @ + 1]
    /\ i' = i + 1
    /\ UNCHANGED <<args, loaded, clock, nthreads, pc, exit_status, opt, dummy_vector,
                   correlation_diagram_data, wk, crit>>

SeqLoopExit ==
    /\ pc = "sequential"
    /\ ~TrialLoopContinues(i, opt.nr_surrogates)
    /\ pc' = "output"
    /\ UNCHANGED <<args, loaded, clock, nthreads, exit_status, opt, dummy_vector, correlation_diagram_data,
                   p_value_diagram, seed, i, wk, crit, hist>>

\* --------------------------------------------------- parallel loop, 150-171
\* schedule(dynamic): an idle worker is handed the next index; its block-local
\* vectors start empty
Fetch(w) ==
    /\ pc = "parallel"
    /\ wk[w].pc = "idle"
    /\ TrialLoopContinues(i, opt.nr_surrogates)
    /\ wk' = [wk EXCEPT ![w] = [IdleWorker EXCEPT !.pc = "rd1", !.i = i]]
    /\ i' = i + 1
    /\ UNCHANGED <<args, loaded, clock, nthreads, pc, exit_status, opt, dummy_vector,
                   correlation_diagram_data, p_value_diagram, seed, crit, hist>>

\* a write of a variable visible to the other workers
NoteWrite(h, name, w) == [h EXCEPT !.writes = @ \cup {[var |-> name, locked |-> crit = w]}]

\* line 160, the load of seed
ReadSeedStart(w) ==
    /\ pc = "parallel"
    /\ wk[w].pc = "rd1"
    /\ wk' = [wk EXCEPT ![w].pc = "wr1", ![w].tmp = seed]
    /\ UNCHANGED <<args, loaded, clock, nthreads, pc, exit_status, opt, dummy_vector,
                   correlation_diagram_data, p_value_diagram, seed, i, crit, hist>>

\* line 160, the store to seed
WriteSeedStart(w) ==
    /\ pc = "parallel"
    /\ wk[w].pc = "wr1"
    /\ seed' = ParSeedStart(wk[w].tmp, wk[w].i)
    /\ wk' = [wk EXCEPT ![w].pc = "genA"]
    /\ hist' = NoteWrite(hist, "seed", w)
    /\ UNCHANGED <<args, loaded, clock, nthreads, pc, exit_status, opt, dummy_vector,
                   correlation_diagram_data, p_value_diagram, i, crit>>

\* line 161
GenerateA(w) ==
    /\ pc = "parallel"
    /\ wk[w].pc = "genA"
    /\ wk' = [wk EXCEPT ![w].pc = "rd2", ![w].seed_a = seed]
    /\ UNCHANGED <<args, loaded, clock, nthreads, pc, exit_status, opt, dummy_vector,
                   correlation_diagram_data, p_value_diagram, seed, i, crit, hist>>

\* line 162, the load of seed
ReadSeedNext(w) ==
    /\ pc = "parallel"
    /\ wk[w].pc = "rd2"
    /\ wk' = [wk EXCEPT ![w].pc = "wr2", ![w].tmp = seed]
    /\ UNCHANGED <<args, loaded, clock, nthreads, pc, exit_status, opt, dummy_vector,
                   correlation_diagram_data, p_value_diagram, seed, i, crit, hist>>

\* line 162, the store to seed
WriteSeedNext(w) ==
    /\ pc = "parallel"
    /\ wk[w].pc = "wr2"
    /\ seed' = ParSeedNext(wk[w].tmp)
    /\ wk' = [wk EXCEPT ![w].pc = "genB"]
    /\ hist' = NoteWrite(hist, "seed", w)
    /\ UNCHANGED <<args, loaded, clock, nthreads, pc, exit_status, opt, dummy_vector,
                   correlation_diagram_data, p_value_diagram, i, crit>>

\* lines 163-166
GenerateB(w) ==
    /\ pc = "parallel"
    /\ wk[w].pc = "genB"
    /\ \E pat \in SurrPatterns :
          wk' = [wk EXCEPT ![w].pc = "enter", ![w].seed_b = seed, ![w].surr = pat,
                           ![w].tmp = 0]
    /\ UNCHANGED <<args, loaded, clock, nthreads, pc, exit_status, opt, dummy_vector,
                   correlation_diagram_data, p_value_diagram, seed, i, crit, hist>>

\* line 167: entry of the critical section
CanEnter_always(w) == TRUE
CanEnter(w) == crit = 0

\* lines 167-169: the worker enters and netOnZeroDXC_update_pdiagram loads the cells
EnterCritical(w) ==
    /\ pc = "parallel"
    /\ wk[w].pc = "enter"
    /\ CanEnter(w)
    /\ crit' = w
    /\ wk' = [wk EXCEPT ![w].pc = "update", ![w].pd = p_value_diagram]
    /\ UNCHANGED <<args, loaded, clock, nthreads, pc, exit_status, opt, dummy_vector,
                   correlation_diagram_data, p_value_diagram, seed, i, hist>>

\* lines 169-170: the cells are stored and the worker leaves the critical section
UpdateCritical(w) ==
    /\ pc = "parallel"
    /\ wk[w].pc = "update"
    /\ p_value_diagram' =
          UpdatePDiagram(wk[w].pd, correlation_diagram_data,
                         SurrDiagram(wk[w].surr,
                                     NewDiagram(opt.nr_window_widths, dummy_vector)),
                         opt.nr_window_widths, opt.nr_surrogates)
    /\ hist' = [NoteWrite(hist, "p_value_diagram", w) EXCEPT
                   !.surr = @ \cup {[trial |-> wk[w].i, pat |-> wk[w].surr]},
                   !.n_update = @ + 1]
    /\ crit' = IF crit = w THEN 0 ELSE crit
    /\ wk' = [wk EXCEPT ![w] = IdleWorker]
    /\ UNCHANGED <<args, loaded, clock, nthreads, pc, exit_status, opt, dummy_vector,
                   correlation_diagram_data, seed, i>>

\* line 171: the implicit barrier at the end of the parallel region
Join ==
    /\ pc = "parallel"
    /\ \A w \in Workers : wk[w].pc = "idle"
    /\ ~TrialLoopContinues(i, opt.nr_surrogates)
    /\ pc' = "output"
    /\ UNCHANGED <<args, loaded, clock, nthreads, exit_status, opt, dummy_vector, correlation_diagram_data,
                   p_value_diagram, seed, i, wk, crit, hist>>

\* lines 193-210
OutputPValue ==
    /\ pc = "output"
    /\ WriteStep(p_value_diagram, "pvalue")
    /\ UNCHANGED <<args, loaded, clock, nthreads, opt, dummy_vector, correlation_diagram_data,
                   p_value_diagram, seed, i, wk, crit>>

Next ==
    \/ ParseOptions
    \/ Load
    \/ CheckSequences
    \/ Allocate
    \/ ComputeReal
    \/ PrintCorrelation
    \/ InitSurrogates
    \/ SeqTrial
    \/ SeqLoopExit
    \/ \E w \in Workers : Fetch(w)
    \/ \E w \in Workers : ReadSeedStart(w)
    \/ \E w \in Workers : WriteSeedStart(w)
    \/ \E w \in Workers : GenerateA(w)
    \/ \E w \in Workers : ReadSeedNext(w)
    \/ \E w \in Workers : WriteSeedNext(w)
    \/ \E w \in Workers : GenerateB(w)
    \/ \E w \in Workers : EnterCritical(w)
    \/ \E w \in Workers : UpdateCritical(w)
    \/ Join
    \/ OutputPValue

Spec == Init /\ [][Next]_vars

\* ================================================================ properties
\* the diagram size of the specification: floor((N - L*W)/L) - (tau > 0 ? tau : 0)
ExpectedK(N, L, W, tau) == ((N - L * W) \div L) - TauTerm(tau)

OnlyCorrelation == args.C /\ ~args.p

\* the column read by check_sequences exists (no read past the matrix)
ColumnReadExists == args.n_a < loaded.ncols

HasSeedA(w) == pc = "parallel" /\ wk[w].pc \in {"rd2", "wr2", "genB", "enter", "update"}

HasSeedB(w) == pc = "parallel" /\ wk[w].pc \in {"enter", "update"}

\* the seeds handed to netOnZeroDXC_generate_surrogate_sequence that the state records
SeedUses ==
    hist.seeds
    \cup {[trial |-> wk[w].i, which |-> "a", seed |-> wk[w].seed_a] :
             w \in {v \in Workers : HasSeedA(v)}}
    \cup {[trial |-> wk[w].i, which |-> "b", seed |-> wk[w].seed_b] :
             w \in {v \in Workers : HasSeedB(v)}}

ScheduledSeed(r) == ToUInt(clock + 2 * r.trial + (IF r.which = "b" THEN 1 ELSE 0))

SurrogateWorkDone == hist.n_init > 0 \/ hist.n_update > 0 \/ SeedUses # {}

\* C1: in parallel mode the A surrogate of trial i is generated with seed
\* base + 2*i and the B surrogate with base + 2*i + 1, whatever the schedule.
C1_ParallelSeedPerIndex ==
    args.parallel => \A r \in SeedUses : r.seed = ScheduledSeed(r)

\* C2: for a valid geometry (even L, N >= L*W, column present) the correlation
\* diagram, the p-value diagram and a per-trial surrogate diagram have W rows of
\* K = floor((N - L*W)/L) - (tau > 0 ? tau : 0) columns each.
C2_DiagramsAreWByK ==
    (hist.allocated /\ ColumnReadExists /\ args.L % 2 = 0
        /\ loaded.len >= args.L * args.W)
    => \A d \in {correlation_diagram_data, p_value_diagram,
                 NewDiagram(opt.nr_window_widths, dummy_vector)} :
          /\ Len(d) = args.W
          /\ \A l \in 1..Len(d) :
                Len(d[l]) = ExpectedK(loaded.len, opt.window_basewidth, args.W, args.tau)

\* C3: whenever the expected diagram size is below 1 (L > 0, W > 0), validation
\* fails and the run exits with status 1 before anything is allocated,
\* computed or written.
C3_InvalidGeometryRejected ==
    (args.L > 0 /\ args.W > 0 /\ ColumnReadExists
        /\ ExpectedK(loaded.len, args.L, args.W, args.tau) < 1)
    => /\ ~hist.validated
       /\ ~hist.allocated
       /\ hist.n_real = 0
       /\ hist.printed = "none"
       /\ (pc = "done" => exit_status = "exit1")

\* C4: the base width that passes validation and reaches the allocation and
\* the core is even and strictly positive.
C4_CoreBaseWidthEvenPositive ==
    hist.validated => (opt.window_basewidth % 2 = 0 /\ opt.window_basewidth > 0)

\* C5: in the parallel loop every write to a variable the workers share is a
\* write of the p-value diagram inside the critical section, and no two workers
\* are at once between the load and the store of a shared variable.
C5_SharedWritesOnlyInCritical ==
    /\ \A wr \in hist.writes : wr.var = "p_value_diagram" /\ wr.locked
    /\ \A w1, w2 \in Workers :
          (w1 # w2 /\ pc = "parallel")
          => /\ ~(wk[w1].pc \in {"wr1", "wr2"} /\ wk[w2].pc \in {"wr1", "wr2"})
             /\ ~(wk[w1].pc = "update" /\ wk[w2].pc = "update")

\* the number of trials whose surrogate cell (l, k) meets or exceeds the real one
Exceedances(l, k) ==
    Cardinality({t \in 0..(opt.nr_surrogates - 1) :
        \E r \in hist.surr :
            /\ r.trial = t
            /\ Abs(SurrValue(r.pat, l, k)) >= Abs(correlation_diagram_data[l][k])})

\* C6: when the trial loop has finished (either mode) each of the M trials has
\* contributed exactly once and every p-value cell holds the number of trials
\* whose surrogate cell meets or exceeds the real one, over M: a value in [0,1].
C6_PValueIsExceedanceFraction ==
    pc = "output" =>
        /\ hist.n_update = opt.nr_surrogates
        /\ \A t \in 0..(opt.nr_surrogates - 1) :
              Cardinality({r \in hist.surr : r.trial = t}) = 1
        /\ Len(p_value_diagram) = opt.nr_window_widths
        /\ \A l \in 1..Len(p_value_diagram) :
              \A k \in 1..Len(p_value_diagram[l]) :
                 /\ p_value_diagram[l][k] = Exceedances(l, k)
                 /\ p_value_diagram[l][k] >= 0
                 /\ p_value_diagram[l][k] <= opt.nr_surrogates

\* a parallel run of two or more trials has finished with cells that differ
C6_Witness ==
    /\ pc = "output"
    /\ args.parallel
    /\ nthreads >= 2
    /\ opt.nr_surrogates >= 2
    /\ \E l \in 1..Len(p_value_diagram) :
          \E k1, k2 \in 1..Len(p_value_diagram[l]) :
             p_value_diagram[l][k1] = opt.nr_surrogates /\ p_value_diagram[l][k2] = 0

\* C7: in sequential mode the A surrogate of trial i is generated with seed
\* (base + 2*i) mod 2^w and the B surrogate with (base + 2*i + 1) mod 2^w; the
\* counter stands at (base + 2*i) mod 2^w before trial i and both seeds of every
\* earlier trial have been used.
C7_SequentialSeedSchedule ==
    ~args.parallel =>
        /\ \A r \in hist.seeds : r.seed = ScheduledSeed(r)
        /\ pc \in {"sequential", "output"} =>
              /\ seed = ToUInt(clock + 2 * i)
              /\ {[trial |-> r.trial, which |-> r.which] : r \in hist.seeds}
                    = [trial : 0..(i - 1), which : {"a", "b"}]

\* a sequential run of two or more trials has finished and the counter wrapped
C7_Witness ==
    /\ pc = "output"
    /\ ~args.parallel
    /\ opt.nr_surrogates >= 2
    /\ \E r \in hist.seeds : r.trial > 0 /\ r.seed < clock

\* C8, as stated: a run that asked only for the correlation diagram and got past
\* the computation of a non-empty diagram ends with the diagram written and
\* exit status 0.
C8_CorrelationOnlyExitsZero ==
    (pc = "done" /\ OnlyCorrelation /\ hist.n_real = 1
        /\ \A l \in 1..Len(correlation_diagram_data) :
              Len(correlation_diagram_data[l]) > 0)
    => (exit_status = "exit0" /\ hist.printed = "corr")

\* C8, amended: the real diagram is computed at most once and before any
\* surrogate work; a run that asked only for the correlation diagram never does
\* surrogate work and takes no step after the output of the computed diagram,
\* exits with status 0 exactly when the diagram was written and with status 1
\* only when writing the output file failed; every other run goes on to the
\* surrogate contexts and never prints the correlation diagram.
C8_RealOnceThenBranch ==
    /\ hist.n_real <= 1
    /\ SurrogateWorkDone => hist.n_real = 1
    /\ OnlyCorrelation =>
          /\ ~SurrogateWorkDone
          /\ hist.printed # "pvalue"
          /\ pc \notin {"sequential", "parallel", "output"}
          /\ (hist.n_real = 1 /\ pc # "branch") => pc = "done"
          /\ (hist.n_real = 1 /\ pc = "done") =>
                /\ exit_status = "exit0" <=> hist.printed = "corr"
                /\ exit_status = "exit1" => opt.write_to_file
    /\ ~OnlyCorrelation =>
          /\ hist.printed # "corr"
          /\ pc # "parse" => ~opt.print_corr_diagram
          /\ (hist.n_real = 1 /\ pc # "branch") => hist.n_init = 2

\* a run that asked only for the correlation diagram wrote it and exited with 0
C8_Witness ==
    /\ pc = "done"
    /\ OnlyCorrelation
    /\ hist.n_real = 1
    /\ hist.printed = "corr"
    /\ exit_status = "exit0"
    /\ hist.n_init = 0

\* C9: no two surrogate generations of one run receive the same seed.
C9_SeedsPairwiseDistinct ==
    \A r1, r2 \in SeedUses : r1 # r2 => r1.seed # r2.seed

\* C10: loaded_sequences is only indexed inside the matrix, and after a
\* successful validation index_a and index_b are both in 0..C-1.
C10_ColumnIndicesInRange ==
    /\ \A idx \in hist.idx_reads : idx >= 0 /\ idx < loaded.ncols
    /\ hist.validated =>
          /\ opt.index_a \in 0..(loaded.ncols - 1)
          /\ opt.index_b \in 0..(loaded.ncols - 1)

====
